---- MODULE Spec2Model ----
(***************************************************************************)
(* Model of src/react/features/base/redux/functions.js: the copy-on-write  *)
(* state updater (assign / set / _set), the deep-equality predicate        *)
(* (equals) and the state accessor (toState).                              *)
(*                                                                         *)
(* Objects live in a heap, a sequence of property maps; a reference is an  *)
(* index into it, so that "same reference" and "same content" are          *)
(* different questions.  A property map is a function whose domain is the  *)
(* set of own properties.  States are plain objects: property names are    *)
(* taken outside the members inherited from Object.prototype, and own      *)
(* properties are configurable, so that delete succeeds.                   *)
(***************************************************************************)
EXTENDS Integers, Sequences, FiniteSets, TLC

VARIABLES heap, target, source, s0, pc, op, t, remaining, property, value,
          ret, stateful, getState, result

vars == <<heap, target, source, s0, pc, op, t, remaining, property, value,
          ret, stateful, getState, result>>

assignVars == <<heap, target, source, s0, op, t, remaining, property, value, ret>>

toStateVars == <<stateful, getState, result>>

(* ------------------------------ bounds --------------------------------- *)
MaxProps == 2

MaxPrim == 1

MaxRef == 2

MaxResult == 3

(* ------------------------------ values --------------------------------- *)
PropNames == <<"a", "b", "c", "d">>

Props == {PropNames[i] : i \in 1..MaxProps}

Undefined == [tag |-> "undefined", v |-> 0]

NaN == [tag |-> "not-a-number", v |-> 0]

\* A number other than NaN.
Num(n) == [tag |-> "finite number", v |-> n]

\* A reference to a nested array or mapping supplied by the caller.
Nested(r) == [tag |-> "nested object", v |-> r]

\* The content of nested object r: references 1 and 2 are two distinct
\* objects with the same content, 3 and 4 likewise, and so on.
NestedContent(r) == <<(r + 1) \div 2>>

Values == {Undefined, NaN} \cup {Num(n) : n \in 1..MaxPrim}
            \cup {Nested(r) : r \in 1..MaxRef}

\* All plain objects over Props: each property absent or present with a value.
Objects == UNION {[S -> Values] : S \in SUBSET Props}

(* --------------------------- JS primitives ----------------------------- *)
\* Mutant of StrictEq: the comparison inverted.
StrictEq_inverted(a, b) == ~(a.tag # "not-a-number" /\ a = b)

\* a === b : same primitive or same reference; NaN === NaN is false.
StrictEq(a, b) == a.tag # "not-a-number" /\ a = b

\* Object.prototype.hasOwnProperty.call(obj, p)
HasOwn(obj, p) == p \in DOMAIN obj

\* obj[p] : undefined when p is no property of obj.
Get(obj, p) == IF p \in DOMAIN obj THEN obj[p] ELSE Undefined

\* Mutant of Put: the spread of obj forgotten.
Put_only(obj, p, v) == [q \in {p} |-> v]

\* { ...obj, [p]: v } and obj[p] = v : the property map with p set to v.
Put(obj, p, v) == [q \in (DOMAIN obj) \cup {p} |-> IF q = p THEN v ELSE obj[q]]

\* Mutant of DeleteProp: the property is kept, holding undefined.
DeleteProp_keep(obj, p) == Put(obj, p, Undefined)

\* delete obj[p] : the property map without p.
DeleteProp(obj, p) == [q \in (DOMAIN obj) \ {p} |-> obj[q]]

\* _.isEqual(a, b) : deep comparison; NaN equals NaN (SameValueZero).
equals(a, b) ==
    IF a.tag = "nested object" /\ b.tag = "nested object"
    THEN NestedContent(a.v) = NestedContent(b.v)
    ELSE a = b

(* ------------------------------- _set ---------------------------------- *)
\* Mutant of _set: the test state[property] !== value left out, so that a
\* write of the current value clones (or rewrites) all the same.
_set_noCompare(h, state, prop, val, copyOnWrite) ==
    IF val = Undefined /\ HasOwn(h[state], prop)
    THEN LET newState == IF copyOnWrite THEN Len(h) + 1 ELSE state
             h1 == IF copyOnWrite THEN Append(h, h[state]) ELSE h
         IN [heap |-> [h1 EXCEPT ![newState] = DeleteProp(@, prop)],
             ret |-> newState]
    ELSE IF copyOnWrite
         THEN [heap |-> Append(h, Put(h[state], prop, val)),
               ret |-> Len(h) + 1]
         ELSE [heap |-> [h EXCEPT ![state] = Put(@, prop, val)],
               ret |-> state]

\* Returns the heap after the call and the reference returned.
_set(h, state, prop, val, copyOnWrite) ==
    IF val = Undefined /\ HasOwn(h[state], prop)
    THEN LET newState == IF copyOnWrite THEN Len(h) + 1 ELSE state
             h1 == IF copyOnWrite THEN Append(h, h[state]) ELSE h
         IN [heap |-> [h1 EXCEPT ![newState] = DeleteProp(@, prop)],
             ret |-> newState]
    ELSE IF ~StrictEq(Get(h[state], prop), val)
         THEN IF copyOnWrite
              THEN [heap |-> Append(h, Put(h[state], prop, val)),
                    ret |-> Len(h) + 1]
              ELSE [heap |-> [h EXCEPT ![state] = Put(@, prop, val)],
                    ret |-> state]
         ELSE [heap |-> h, ret |-> state]

\* Mutant of set: the state is written in place.
set_inPlace(h, state, prop, val) == _set(h, state, prop, val, FALSE)

\* set takes three parameters and always copies on write.
set(h, state, prop, val) == _set(h, state, prop, val, TRUE)

(* ------------------------------ toState -------------------------------- *)
Absent == [tag |-> "absent", r |-> 0]

NonFunction == [tag |-> "value", r |-> 0]

Function(r) == [tag |-> "function", r |-> r]

Members == {Absent, NonFunction} \cup {Function(r) : r \in 1..MaxResult}

Falsy == {"null", "undefined", "false", "zero", "emptyString"}

Statefuls ==
    {[kind |-> k, r |-> 0, getState |-> Absent, dispatch |-> Absent] :
        k \in Falsy \cup {"number"}}
    \cup {[kind |-> "function", r |-> r, getState |-> Absent, dispatch |-> Absent] :
        r \in 1..MaxResult}
    \cup {[kind |-> "object", r |-> 0, getState |-> g, dispatch |-> d] :
        g \in Members, d \in Members}

NoStateful == [kind |-> "undefined", r |-> 0, getState |-> Absent, dispatch |-> Absent]

NoResult == [tag |-> "none", r |-> 0, v |-> NoStateful]

\* The state a called function returns.
Returned(r) == [tag |-> "state", r |-> r, v |-> NoStateful]

\* The argument itself.
Itself(x) == [tag |-> "stateful", r |-> 0, v |-> x]

TypeError == [tag |-> "TypeError", r |-> 0, v |-> NoStateful]

\* m() : the state m returns, or a TypeError when m is not callable.
Call(m) == IF m.tag = "function" THEN Returned(m.r) ELSE TypeError

(* ------------------------------- Init ---------------------------------- *)
Init ==
    /\ s0 \in Objects
    /\ heap = <<s0>>
    /\ target = 1
    /\ source = <<>>
    /\ pc = "ready"
    /\ op = "none"
    /\ t = 0
    /\ remaining = {}
    /\ property = "none"
    /\ value = Undefined
    /\ ret = 0
    /\ stateful = NoStateful
    /\ getState = Absent
    /\ result = NoResult

(* ------------------------------ assign --------------------------------- *)
\* assign(target, source) with a change set of the caller's choice:
\* let t = target;
CallAssign ==
    /\ pc = "ready"
    /\ \E c \in Objects :
         /\ source' = c
         /\ remaining' = DOMAIN c
    /\ pc' = "assign"
    /\ op' = "assign"
    /\ t' = target
    /\ UNCHANGED <<heap, target, s0, property, value, ret>>
    /\ UNCHANGED toStateVars

\* Mutant of AssignStep: the value returned by set is dropped.
AssignStep_dropResult ==
    /\ pc = "assign"
    /\ \E p \in remaining :
         LET r == set(heap, t, p, source[p])
         IN /\ heap' = r.heap
            /\ t' = t
            /\ property' = p
            /\ value' = source[p]
            /\ remaining' = remaining \ {p}
    /\ UNCHANGED <<target, source, s0, pc, op, ret>>
    /\ UNCHANGED toStateVars

\* One iteration of the for-in loop: t = set(t, property, source[property], ...).
\* set has no fourth parameter, so the argument t === target is dropped.
AssignStep ==
    /\ pc = "assign"
    /\ \E p \in remaining :
         LET r == set(heap, t, p, source[p])
         IN /\ heap' = r.heap
            /\ t' = r.ret
            /\ property' = p
            /\ value' = source[p]
            /\ remaining' = remaining \ {p}
    /\ UNCHANGED <<target, source, s0, pc, op, ret>>
    /\ UNCHANGED toStateVars

\* return t;
AssignReturn ==
    /\ pc = "assign"
    /\ remaining = {}
    /\ pc' = "done"
    /\ ret' = t
    /\ UNCHANGED <<heap, target, source, s0, op, t, remaining, property, value>>
    /\ UNCHANGED toStateVars

(* -------------------------------- set ---------------------------------- *)
CallSet ==
    /\ pc = "ready"
    /\ \E p \in Props, v \in Values :
         LET r == set(heap, target, p, v)
         IN /\ heap' = r.heap
            /\ ret' = r.ret
            /\ property' = p
            /\ value' = v
    /\ pc' = "done"
    /\ op' = "set"
    /\ UNCHANGED <<target, source, s0, t, remaining>>
    /\ UNCHANGED toStateVars

Next == CallAssign \/ AssignStep \/ AssignReturn \/ CallSet

Spec == Init /\ [][Next]_vars

(* ------------------------------ toState -------------------------------- *)
InitToState ==
    /\ s0 = <<>>
    /\ heap = <<s0>>
    /\ target = 1
    /\ source = <<>>
    /\ op = "toState"
    /\ t = 0
    /\ remaining = {}
    /\ property = "none"
    /\ value = Undefined
    /\ ret = 0
    /\ pc = "L125"
    /\ stateful \in Statefuls
    /\ getState = Absent
    /\ result = NoResult

\* if (stateful) { ... } return stateful;
ToStateL125 ==
    /\ pc = "L125"
    /\ IF stateful.kind \in Falsy
       THEN pc' = "done" /\ result' = Itself(stateful)
       ELSE pc' = "L126" /\ result' = result
    /\ UNCHANGED <<stateful, getState>>
    /\ UNCHANGED assignVars

\* if (typeof stateful === 'function') return stateful();
ToStateL126 ==
    /\ pc = "L126"
    /\ IF stateful.kind = "function"
       THEN pc' = "done" /\ result' = Returned(stateful.r)
       ELSE pc' = "L130" /\ result' = result
    /\ UNCHANGED <<stateful, getState>>
    /\ UNCHANGED assignVars

\* const { getState } = stateful;
ToStateL130 ==
    /\ pc = "L130"
    /\ getState' = stateful.getState
    /\ pc' = "L132"
    /\ UNCHANGED <<stateful, result>>
    /\ UNCHANGED assignVars

\* Mutant of ToStateL132: || in place of &&.
ToStateL132_or ==
    /\ pc = "L132"
    /\ IF getState.tag = "function" \/ stateful.dispatch.tag = "function"
       THEN result' = Call(getState)
       ELSE result' = Itself(stateful)
    /\ pc' = "done"
    /\ UNCHANGED <<stateful, getState>>
    /\ UNCHANGED assignVars

\* if (typeof getState === 'function' && typeof stateful.dispatch === 'function')
\*     return getState();
\* return stateful;
ToStateL132 ==
    /\ pc = "L132"
    /\ IF getState.tag = "function" /\ stateful.dispatch.tag = "function"
       THEN result' = Call(getState)
       ELSE result' = Itself(stateful)
    /\ pc' = "done"
    /\ UNCHANGED <<stateful, getState>>
    /\ UNCHANGED assignVars

NextToState == ToStateL125 \/ ToStateL126 \/ ToStateL130 \/ ToStateL132

SpecToState == InitToState /\ [][NextToState]_vars

(* ------------------------- terms of the claims ------------------------- *)
\* a and b are identical: the same primitive or the same reference (===).
Identical(a, b) == a = b /\ a # NaN

\* The current value of p in obj; undefined when obj has no property p.
ValueOf(obj, p) == IF p \in DOMAIN obj THEN obj[p] ELSE Undefined

\* a and b are deep-equal.
DeepEqual(a, b) ==
    \/ a = b
    \/ a.tag = "nested object" /\ b.tag = "nested object" /\ NestedContent(a.v) = NestedContent(b.v)

\* Setting p to v on obj changes obj: a deletion, or a value not identical.
Changes(obj, p, v) ==
    \/ v = Undefined /\ p \in DOMAIN obj
    \/ ~Identical(ValueOf(obj, p), v)

\* s overridden by c: keys of c that are undefined absent, the others with
\* c's value, the keys of s outside c with s's value.
Override(s, c) ==
    [k \in ((DOMAIN s) \ {q \in DOMAIN c : c[q] = Undefined})
              \cup {q \in DOMAIN c : c[q] # Undefined} |->
        IF k \in DOMAIN c THEN c[k] ELSE s[k]]

\* The number of state objects created since the call began.
Allocated == Len(heap) - 1

AssignDone == op = "assign" /\ pc = "done"

SetDone == op = "set" /\ pc = "done"

(* ------------------------------- claims -------------------------------- *)
\* C1: when every key of the change set maps to a value deep-equal to the
\* state's current value (or is absent from the state and set to undefined),
\* assign returns the very same reference and allocates nothing.
C1_IdentityPreservationDeep ==
    (AssignDone /\ \A k \in DOMAIN source :
                      \/ k \in DOMAIN s0 /\ DeepEqual(source[k], s0[k])
                      \/ k \notin DOMAIN s0 /\ source[k] = Undefined)
        => (ret = target /\ Allocated = 0)

\* C2: during one call of assign at most one new state object is created,
\* and once a clone exists the running result keeps that reference to the
\* end of the call.
C2_MinimalCloning ==
    [][(op' = "assign" => Allocated' <= 1)
       /\ (pc = "assign" /\ t # target => t' = t)]_vars

\* C3: the original state keeps its own properties and values at every step
\* and at the end of assign and of set, and when at least one property of the
\* change set differs from the state the reference returned is not the state.
C3_OriginalUntouched ==
    /\ heap[target] = s0
    /\ (AssignDone /\ \E k \in DOMAIN source : Changes(s0, k, source[k]))
           => ret # target

C3_Witness ==
    /\ AssignDone
    /\ Cardinality(DOMAIN source) >= 2
    /\ \E k \in DOMAIN source : Changes(s0, k, source[k])
    /\ ret # target
    /\ heap[ret] # s0
    /\ heap[target] = s0

C5_SetNoOp ==
    (SetDone /\ (\/ value = Undefined /\ property \notin DOMAIN s0
                 \/ /\ ~(value = Undefined /\ property \in DOMAIN s0)
                    /\ Identical(ValueOf(s0, property), value)))
        => (ret = target /\ Allocated = 0 /\ heap[target] = s0)

C5_Witness ==
    /\ SetDone
    /\ value # Undefined
    /\ property \in DOMAIN s0
    /\ Identical(s0[property], value)
    /\ ret = target

\* C6: set(s, p, v), v not undefined and not identical to the current value
\* of p (p absent included), returns a new object distinct from s holding v
\* at p, every other property of s at the same value, and nothing else.
C6_SetChanging ==
    (SetDone /\ value # Undefined /\ ~Identical(ValueOf(s0, property), value))
        => /\ ret # target
           /\ DOMAIN heap[ret] = (DOMAIN s0) \cup {property}
           /\ heap[ret][property] = value
           /\ \A q \in (DOMAIN s0) \ {property} : heap[ret][q] = s0[q]

C6_Witness ==
    /\ SetDone
    /\ value # Undefined
    /\ ~Identical(ValueOf(s0, property), value)
    /\ (DOMAIN s0) \ {property} # {}
    /\ ret # target
    /\ heap[ret][property] = value

C8_ToState ==
    (op = "toState" /\ pc = "done")
        => result = IF stateful.kind = "function"
                    THEN Returned(stateful.r)
                    ELSE IF /\ stateful.kind = "object"
                            /\ stateful.getState.tag = "function"
                            /\ stateful.dispatch.tag = "function"
                         THEN Returned(stateful.getState.r)
                         ELSE Itself(stateful)

C8_Witness ==
    /\ op = "toState"
    /\ pc = "done"
    /\ stateful.kind = "object"
    /\ stateful.getState.tag = "value"
    /\ stateful.dispatch.tag = "function"
    /\ result = Itself(stateful)

C10_IdentityPreservation ==
    (AssignDone /\ \A k \in DOMAIN source :
                      \/ source[k] # Undefined /\ Identical(source[k], ValueOf(s0, k))
                      \/ source[k] = Undefined /\ k \notin DOMAIN s0)
        => (ret = target /\ Allocated = 0 /\ heap[target] = s0)

C10_Witness ==
    /\ AssignDone
    /\ \E j, k \in DOMAIN source :
          /\ source[j] = Undefined /\ j \notin DOMAIN s0
          /\ source[k].tag = "nested object" /\ Identical(source[k], ValueOf(s0, k))
    /\ ret = target

====
